---- MODULE Spec2Model ----
(***************************************************************************)
(* A model of the per-core send/receive loop of the PUSHBACK client,       *)
(* PushbackRecvSend in splinter/src/bin/client/pushback.rs: the window of  *)
(* outstanding requests, the pending map of TaskManagers, the runnable     *)
(* queue of pushed-back tasks and the accounting of responses.             *)
(*                                                                         *)
(* One invocation of execute() is the sequence Send, Recv, ExecuteTask;    *)
(* `pc` is the position inside the invocation and pc = "send" is the point *)
(* between two invocations.  The server and the NIC are the environment:   *)
(* `wire` holds the requests the server has not answered yet, and the      *)
(* batch handed over by recv_res() is chosen in Recv.                      *)
(*                                                                         *)
(* Abstractions: a latency sample is recorded by its count only (the       *)
(* vector `latencies` is modelled by its length); the cycle counter is     *)
(* read as a strictly increasing `clock` where its value is stored (send   *)
(* stamps, stamps of follow-up GETs, `stop`); GetOk payloads are taken to  *)
(* be non-empty with a zero first byte, as the workload's values are.      *)
(*                                                                         *)
(* Three further components share the module and each has a specification  *)
(* of its own in which the loop stands still: the workload generator       *)
(* Pushback (new, abc) of the same file, the RequestGenerator of           *)
(* db/src/bin/client/main.rs with the builders of request frames, and the  *)
(* summary Drop computes from the latency samples (there the samples are   *)
(* kept as values, in `samples`).  Two more are the synthetic compute      *)
(* mul(), whose u64 product is kept as four 16-bit limbs, and main() with  *)
(* the 8 loops it runs, where each loop is reduced to its count of         *)
(* responses, its `finished` and the flag FINISHED.                        *)
(***************************************************************************)
EXTENDS Integers, Sequences, FiniteSets, TLC

\* The window of outstanding requests: the literal 32 of send()'s loop.
Window == 32

\* Number of operations performed by the extension in the native case.
NUM_OPS == 1

\* Number of multiplications performed by the extension in the native case.
NUM_MUL == 1000

\* The cores main() sets a loop up on: senders_receivers has 8 elements.
NumCores == 8

\* The response target setup_send_recv() passes to new(): 34 * 1000 * 1000.
RespTarget == 34000000

\* Stands for u64::MAX, the value 0 - 1 wraps to without overflow checks.
\* TLC's integers are 32 bits wide; no other counter of the model comes near.
U64Max == 2147483647

\* The bytes of the key that hold the key index: mem::size_of::<u32>().
KeyWidth == 4

\* The modulus of the draw that decides between a get and a put.
Percent == 100

\* The number of values of a byte.
Byte == 256

\* A number of keys whose indices need a second byte.
ManyKeys == 257

\* size_of::<UdpHeader>() and size_of::<IpHeader>().
UdpHeaderLen == 8
IpHeaderLen == 20

\* The number of values of a u16.
U16 == 65536

\* The sizes of the RPC headers GetRequest and InvokeRequest: the common
\* header (opcode u8, tenant u32, stamp u64), then table_id u64 and key_len
\* u16, or name_len u32 and args_len u32.
GetRequestLen == 23
InvokeRequestLen == 21

\* generate_request(): the key of 30 zero bytes, the extension name "get" and
\* the 8 bytes of the table id.
FixedKeyLen == 30
NameLen == 3
TableIdLen == 8

\* Bounds of the model.
MaxSmallReqs == 1   \* num_reqs ranges over 1..MaxSmallReqs and Window + MaxSmallReqs
MaxResps == 2       \* small response targets 1..MaxResps given to new()
MaxBatch == 2       \* packets in one batch returned by recv_res()
MaxEvents == 1      \* in one run: packets that are a Pushback response or
                    \* answer no request, and as many steps of local tasks
                    \* that end WAITING
MaxStalls == 1      \* reads of the cycle counter, in one run, that return the
                    \* value of the read before
MaxLost == 1        \* requests lost one by one in a burst of losses
MaxEventsWide == 2  \* the same, in the specifications of the claims about
                    \* two such events in one run
MaxRng == 100       \* the values rng.gen::<u32>() returns range over 0..MaxRng
MaxPad == 1         \* key_len ranges over KeyWidth..KeyWidth + MaxPad
MaxValueLen == 1    \* value_len ranges over 0..MaxValueLen
MaxKeys == 2        \* n_keys ranges over 1..MaxKeys and ManyKeys
MaxTenants == 1     \* n_tenants ranges over 1..MaxTenants
MaxLen == 1         \* short keys and payloads: lengths 0..MaxLen
MaxSlack == 52      \* long keys and payloads: lengths U16 - MaxSlack..U16
MaxGenerated == 3   \* calls of generate_request() in one run
MaxSamples == 4     \* latency samples in the vector that is dropped
MaxLatency == 3     \* a latency sample ranges over 1..MaxLatency
MaxInit == 1        \* first payload bytes mul() is called with, besides 255
MaxCoreResps == 1   \* the response target of each of the 8 loops main() runs

VARIABLES
    native,         \* config: !use_invoke
    requests,       \* config: num_reqs
    responses,      \* the response target `resps`
    reliable,       \* environment: every packet is the one answer to a request,
                    \* and a poll finds an answer whenever one is due
    budget,         \* environment: MaxEvents or MaxEventsWide
    put_pct,        \* config: put_pct
    key_len,        \* config: key_len
    value_len,      \* config: value_len
    workload,       \* the Pushback instance: put_pct, key_buf, value_buf and
                    \* the ranges of its two Zipfian distributions
    call,           \* history: the last call of abc(), its draws and the
                    \* callback it invoked
    use_invoke,     \* RequestGenerator: invoke() or get() requests
    requests_sent,  \* RequestGenerator: requests counted as sent
    frame,          \* the last request frame built: the length of its UDP
                    \* payload and its two length fields
    exit_code,      \* the code the process has exited with, -1 while it runs
    nic,            \* history: what the last net_port.send() returned
    submitted,      \* history: calls of net_port.send() so far
    warnings,       \* history: warnings printed so far
    samples,        \* the latency vector of the instance that is dropped
    master,         \* the instance makes latency measurements
    summary,        \* what Drop has printed
    compute,        \* a call of mul(): its arguments, the loop variable i, the
                    \* product so far and the multiplications performed
    cores,          \* the loops main() sets up, one per core: for each its
                    \* `recvd` and `finished`
    main,           \* the main thread: "boot", "poll" (waiting for FINISHED),
                    \* "stop" (about to stop the schedulers) or "stopped"
    sent, recvd, outstanding, latencies, finished, FINISHED, stop,
    manager,        \* pending map: a set of TaskManagers, keyed by their id
    waiting,        \* runnable queue: a sequence of TaskManagers
    native_state,   \* map stamp -> count, as a set of [stamp, count]
    clock,          \* the last value read from the cycle counter
    pc,             \* "send", "recv" or "task"
    panicked,       \* the thread panicked: the loop runs no more
    wire,           \* requests sent and not yet answered by the server
    pushbacks,      \* Pushback responses delivered so far
    waits,          \* steps of local tasks that ended WAITING so far
    spurious,       \* packets delivered so far that were not the answer to a request
    inflight,       \* history: stamps of sent requests not yet accounted complete
    misaccounted,   \* history: a completion was accounted for a stamp not in flight
    entryDone,      \* history: recvd >= responses held when this invocation began
    batch,          \* history: the batch this invocation's recv() was handed,
                    \* in delivery order
    handled,        \* history: its packets, in the order recv() handled them
    frees,          \* history: for each of them, the calls of free_packet()
    stalls,         \* reads of the cycle counter so far that returned the
                    \* value of the read before
    taskstate,      \* history: what the task stepped by this invocation's
                    \* execute_task() returned, "NONE" without a step
    lost,           \* requests of send() the network has lost so far
    dropped,        \* requests of any kind the network has lost so far
    losing          \* environment: a burst of losses is going on

vars == <<native, requests, responses, reliable, budget,
          put_pct, key_len, value_len, workload, call,
          use_invoke, requests_sent, frame, exit_code, nic, submitted,
          warnings, samples, master, summary, compute, cores, main,
          sent, recvd, outstanding, latencies, finished, FINISHED, stop,
          manager, waiting, native_state, clock, pc, panicked,
          wire, pushbacks, waits, spurious, inflight, misaccounted, entryDone,
          batch, handled, stalls, taskstate, lost, dropped, losing,
          frees>>

\* The part of the environment only the lossy network changes.
loss == <<lost, dropped>>

config == <<native, requests, responses, reliable, budget,
            put_pct, key_len, value_len>>

\* The request generator of the db client.
generator == <<use_invoke, requests_sent, frame, exit_code, nic, submitted,
               warnings>>

\* The latency vector and what Drop makes of it.
report == <<samples, master, summary>>

\* The main thread and the loops it runs.
cluster == <<cores, main>>

\* The fields of one PushbackRecvSend, with the histories and the environment
\* of the model.
thread == <<sent, recvd, outstanding, latencies, finished, stop,
          manager, waiting, native_state, clock, pc, panicked,
          wire, pushbacks, waits, spurious, inflight, misaccounted, entryDone,
          batch, handled, stalls, taskstate, lost, dropped, losing,
          frees>>

\* The state of the loop: its fields and the flag all loops share.
loop == <<thread, FINISHED>>

----------------------------------------------------------------------------
\* The request generator of the db client, RequestGenerator.

\* No frame has been built.
NoFrame ==
    [built |-> FALSE, refused |-> FALSE, panicked |-> FALSE, payload |-> 0,
     udp_length |-> 0, ip_length |-> 0]

\* A u16 addition: on overflow the debug build panics, the release build
\* wraps.
Add16(a, b, checks) ==
    IF a + b < U16 THEN [panicked |-> FALSE, value |-> a + b]
    ELSE IF checks THEN [panicked |-> TRUE, value |-> 0]
    ELSE [panicked |-> FALSE, value |-> (a + b) % U16]

\* fixup_header_length_fields() on a request whose UDP payload (RPC header
\* and body) is `payload` bytes long: `as u16` keeps the low 16 bits.
fixup_header_length_fields(payload, checks) ==
    LET udp_len == (UdpHeaderLen + payload) % U16
        ip_len == Add16(IpHeaderLen, udp_len, checks)
    IN  [built |-> ~ip_len.panicked, refused |-> FALSE,
         panicked |-> ip_len.panicked, payload |-> payload,
         udp_length |-> udp_len, ip_length |-> ip_len.value]

\* create_get_request() for a key of klen bytes: a key longer than
\* u16::max_value() is refused with a panic.
create_get_request(klen, checks) ==
    IF klen > U16 - 1
    THEN [NoFrame EXCEPT !.refused = TRUE, !.panicked = TRUE]
    ELSE fixup_header_length_fields(GetRequestLen + klen, checks)

\* create_invoke_request() for a payload (name and arguments) of plen bytes.
\* (It refuses a name or arguments longer than u32::max_value(), lengths
\* beyond those of the model.)
create_invoke_request(plen, checks) ==
    fixup_header_length_fields(InvokeRequestLen + plen, checks)

\* What net_port.send() can return for the one packet submitted: Ok(sent)
\* with sent 0 or 1, or Err.
SendResults ==
    [called : {TRUE}, ok : {TRUE}, sent : {0, 1}] \cup
    [called : {TRUE}, ok : {FALSE}, sent : {0}]

\* No call of net_port.send() yet.
NoSend == [called |-> FALSE, ok |-> FALSE, sent |-> 0]

\* A generator that counts the packets the NIC accepted.
after_send_CountsAccepted(res, r) ==
    IF res.ok
    THEN [requests_sent |-> r + res.sent, exit_code |-> <<>>,
          warned |-> IF res.sent < 1 THEN 1 ELSE 0]
    ELSE [requests_sent |-> r, exit_code |-> <<1>>, warned |-> 0]

\* generate_request() once net_port.send() has returned res, with r requests
\* sent before: a warning if the NIC took less than the one packet, exit(1)
\* on Err, and else one more request sent.
after_send(res, r) ==
    IF res.ok
    THEN [requests_sent |-> r + 1, exit_code |-> <<>>,
          warned |-> IF res.sent < 1 THEN 1 ELSE 0]
    ELSE [requests_sent |-> r, exit_code |-> <<1>>, warned |-> 0]

----------------------------------------------------------------------------
\* Drop for PushbackRecvSend: the summary of the latencies.

\* self.latencies.sort().
sort(v) == SortSeq(v, LAMBDA a, b : a < b)

\* drop(): the master thread sorts the latencies and prints the median m and
\* the tail t; v[i] is the element of index i of the vector, counted from 0,
\* and an index out of bounds panics.
drop(v, is_master) ==
    LET l == sort(v)
        n == Len(l)
        InBounds(i) == i < n
        At(i) == l[i + 1]
        tail == (n * 99) \div 100
        Panic == [done |-> TRUE, printed |-> FALSE, panicked |-> TRUE,
                  m |-> 0, t |-> 0]
    IN  IF ~is_master
        THEN [done |-> TRUE, printed |-> FALSE, panicked |-> FALSE,
              m |-> 0, t |-> 0]
        ELSE IF ~InBounds(tail) THEN Panic
        ELSE IF n % 2 = 0
        THEN IF ~InBounds((n \div 2) + 1) THEN Panic
             ELSE [done |-> TRUE, printed |-> TRUE, panicked |-> FALSE,
                   m |-> (At(n \div 2) + At((n \div 2) + 1)) \div 2,
                   t |-> At(tail)]
        ELSE [done |-> TRUE, printed |-> TRUE, panicked |-> FALSE,
              m |-> At(n \div 2), t |-> At(tail)]

----------------------------------------------------------------------------
\* The synthetic compute of the native case, PushbackRecvSend::mul.

\* mul *= i on a u64 kept as four 16-bit limbs, the least significant first:
\* the product modulo 2^64, and whether the multiplication overflowed.
MulU64(v, i) ==
    LET p1 == v[1] * i
        p2 == v[2] * i + (p1 \div U16)
        p3 == v[3] * i + (p2 \div U16)
        p4 == v[4] * i + (p3 \div U16)
    IN  [value |-> <<p1 % U16, p2 % U16, p3 % U16, p4 % U16>>,
         overflow |-> (p4 \div U16) > 0]

\* mul(init, limit) on entry to its loop: `let mut mul: u64 = init as u64`,
\* and i is the first element of the range 1..limit.
mul_entry(init, limit, checks) ==
    [pc |-> "loop", init |-> init, limit |-> limit, i |-> 1,
     mul |-> <<init, 0, 0, 0>>, steps |-> 0, overflow_checks |-> checks]

\* The range 1..limit has another element: it ends before limit.
in_range(i, limit) == i < limit

\* One turn of the loop, mul *= i: on overflow the debug build panics and the
\* release build wraps.
mul_step(c) ==
    LET r == MulU64(c.mul, c.i) IN
    IF r.overflow /\ c.overflow_checks
    THEN [c EXCEPT !.pc = "panicked"]
    ELSE [c EXCEPT !.mul = r.value, !.i = @ + 1, !.steps = @ + 1]

----------------------------------------------------------------------------
\* The workload generator, Pushback.

\* A buffer of n zero bytes: Vec::resize(n, 0).
Zeros(n) == [i \in 1..n |-> 0]

\* Pushback::new(): the two buffers are zeroed; the Zipfian distributions are
\* kept by the ranges they are created with.
Pushback_new(klen, vlen, nkeys, pct, ntenants) ==
    [put_pct |-> pct, n_keys |-> nkeys, n_tenants |-> ntenants,
     key_buf |-> Zeros(klen), value_buf |-> Zeros(vlen)]

\* The values rng.gen::<u32>() can return.
Rng == 0..MaxRng

\* A sampler whose indices start at 0.
ZipfSamples_FromZero(n) == 0..(n - 1)

\* The values ZipfDistribution::sample() can return for a distribution
\* created over n elements.
ZipfSamples(n) == 1..n

\* A decision that also issues a get when the residue is one less than
\* put_pct.
is_get_OffByOne(g, pct) == (g % Percent) + 1 >= pct

\* abc(): the draw g issues a get.
is_get(g, pct) == (g % Percent) >= pct

\* The index with its most significant byte first.
to_be_bytes(k) ==
    <<(k \div (Byte * Byte * Byte)) % Byte, (k \div (Byte * Byte)) % Byte,
      (k \div Byte) % Byte, k % Byte>>

\* abc(): k.to_le() transmuted into [u8; 4], least significant byte first.
to_le_bytes(k) ==
    <<k % Byte, (k \div Byte) % Byte, (k \div (Byte * Byte)) % Byte,
      (k \div (Byte * Byte * Byte)) % Byte>>

\* abc(): key_buf[0..4].copy_from_slice(&k).
copy_from_slice(buf, bytes) ==
    [i \in 1..Len(buf) |-> IF i <= Len(bytes) THEN bytes[i] ELSE buf[i]]

\* A call that hands over the key buffer as the call before left it.
abc_StaleKey(w, g, t, k) ==
    IF is_get(g, w.put_pct)
    THEN [workload |-> w, panicked |-> FALSE, gets |-> 1, puts |-> 0,
          tenant |-> t, key |-> w.key_buf, value |-> <<>>]
    ELSE [workload |-> w, panicked |-> FALSE, gets |-> 0, puts |-> 1,
          tenant |-> t, key |-> w.key_buf, value |-> w.value_buf]

\* abc() for the draws g (get or put), t (tenant) and k (key index): the
\* instance afterwards, and the callback invoked with its arguments.  The
\* slice key_buf[0..4] is out of range, and the call panics, for a key buffer
\* shorter than 4 bytes.
abc(w, g, t, k) ==
    IF Len(w.key_buf) < KeyWidth
    THEN [workload |-> w, panicked |-> TRUE, gets |-> 0, puts |-> 0,
          tenant |-> t, key |-> <<>>, value |-> <<>>]
    ELSE LET buf == copy_from_slice(w.key_buf, to_le_bytes(k)) IN
         IF is_get(g, w.put_pct)
         THEN [workload |-> [w EXCEPT !.key_buf = buf], panicked |-> FALSE,
               gets |-> 1, puts |-> 0,
               tenant |-> t, key |-> buf, value |-> <<>>]
         ELSE [workload |-> [w EXCEPT !.key_buf = buf], panicked |-> FALSE,
               gets |-> 0, puts |-> 1,
               tenant |-> t, key |-> buf, value |-> w.value_buf]

----------------------------------------------------------------------------
\* TaskManager::new: a task for the invoke stamped `id`, without a generator.
NewTask(id) == [id |-> id, gen |-> FALSE]

\* An insertion that keeps the entry the map already has for the key.
add_request_KeepsOld(m, id) ==
    IF \E t \in m : t.id = id THEN m ELSE m \cup {NewTask(id)}

\* HashMap::insert on the pending map: an entry with the same key is replaced.
add_request(m, id) == {t \in m : t.id /= id} \cup {NewTask(id)}

\* HashMap::remove on the pending map.
remove_request(m, id) == {t \in m : t.id /= id}

\* The fields of PushbackRecvSend that send() and recv() update, as a record,
\* with the histories and with the build's overflow checks (on in a debug
\* build, where arithmetic overflow panics; off in a release build, where it
\* wraps).
Fields ==
    [sent |-> sent, recvd |-> recvd, outstanding |-> outstanding,
     latencies |-> latencies, manager |-> manager, waiting |-> waiting,
     native_state |-> native_state, clock |-> clock, panicked |-> panicked,
     wire |-> wire, inflight |-> inflight, misaccounted |-> misaccounted,
     handled |-> handled, frees |-> frees, workload |-> workload,
     overflow_checks |-> FALSE]

\* send(): the call of abc() of one iteration.  The loop is constructed over
\* one key and one tenant, and with put_pct 0 every draw issues a get, so
\* that the call has one outcome.
Drawn(s) ==
    LET w == s.workload
    IN  abc(w, CHOOSE g \in Rng : TRUE,
               CHOOSE t \in ZipfSamples(w.n_tenants) : TRUE,
               CHOOSE k \in ZipfSamples(w.n_keys) : TRUE)

\* send(), native mode: abc()'s get callback is send_get, its put callback
\* send_put.
NativeOp(c) == IF c.gets = 1 THEN "Get" ELSE "Put"

\* One iteration of send()'s loop once rdtsc() has returned curr: send,
\* track, count.  (`seq` tells the requests on the wire apart.)
SendStamped(s, curr) ==
    LET c == Drawn(s) IN
    IF c.panicked THEN [s EXCEPT !.clock = curr, !.panicked = TRUE]
    ELSE IF native
    THEN [s EXCEPT !.clock = curr,
                   !.workload = c.workload,
                   !.wire = @ \cup {[stamp |-> curr, op |-> NativeOp(c),
                                     seq |-> s.sent + 1]},
                   !.native_state =
                       IF \E e \in @ : e.stamp = curr THEN @
                       ELSE @ \cup {[stamp |-> curr, count |-> 1]},
                   !.outstanding = @ + 1,
                   !.sent = @ + 1,
                   !.inflight = @ \cup {curr}]
    ELSE [s EXCEPT !.clock = curr,
                   !.workload = c.workload,
                   !.manager = add_request(@, curr),
                   !.wire = @ \cup {[stamp |-> curr, op |-> "Invoke",
                                     seq |-> s.sent + 1]},
                   !.outstanding = @ + 1,
                   !.sent = @ + 1,
                   !.inflight = @ \cup {curr}]

\* One iteration of send()'s loop: stamp, send, track, count.
SendOne(s) == SendStamped(s, s.clock + 1)

\* A loop that sends while the window is not exceeded, one request more.
RECURSIVE SendLoop_Overfills(_)
SendLoop_Overfills(s) ==
    LET iteration[v \in {s}] ==
            IF v.outstanding <= Window THEN SendLoop_Overfills(SendOne(v))
            ELSE v
    IN  iteration[s]

\* send()'s loop: while self.outstanding < 32.  (The state of an iteration
\* is bound as a value, v, so that it is computed once.)
RECURSIVE SendLoop(_)
SendLoop(s) ==
    LET iteration[v \in {s}] ==
            IF v.outstanding < Window THEN SendLoop(SendOne(v)) ELSE v
    IN  iteration[s]

\* A send() that issues one request per call instead of filling the window.
send_OnePerCall(s) == IF requests <= s.sent THEN s ELSE SendOne(s)

\* send(): return if there are no more requests to generate, else loop.
send(s) == IF requests <= s.sent THEN s ELSE SendLoop(s)

----------------------------------------------------------------------------
\* self.outstanding -= 1 on a u64: below zero the debug build panics and the
\* release build wraps.
DecOutstanding(s) ==
    IF s.outstanding = 0
    THEN IF s.overflow_checks THEN [s EXCEPT !.panicked = TRUE]
         ELSE [s EXCEPT !.outstanding = U64Max]
    ELSE [s EXCEPT !.outstanding = @ - 1]

\* History: recv() accounts a completion for the response stamped `stamp`.
Account(s, stamp) ==
    IF stamp \in s.inflight
    THEN [s EXCEPT !.inflight = @ \ {stamp}]
    ELSE [s EXCEPT !.misaccounted = TRUE]

\* recv(), invoke mode, SandstormInvokeRpc with StatusOk.
InvokeOk(s, stamp) ==
    LET a == Account([s EXCEPT !.recvd = @ + 1, !.latencies = @ + 1], stamp)
        b == DecOutstanding(a)
    IN  IF b.panicked THEN b
        ELSE [b EXCEPT !.manager = remove_request(@, stamp)]

\* A Pushback handler that leaves `outstanding` alone, as if the request
\* stayed outstanding until its local task completes.
InvokePushback_KeepsOutstanding(s, stamp) ==
    LET found == {t \in s.manager : t.id = stamp}
        a == IF found /= {}
             THEN [s EXCEPT !.manager = @ \ found,
                            !.waiting = Append(@, [(CHOOSE t \in found : TRUE)
                                                      EXCEPT !.gen = TRUE])]
             ELSE s
    IN  Account([a EXCEPT !.latencies = @ + 1, !.recvd = @ + 1], stamp)

\* A Pushback handler that queues the task and keeps its pending entry.
InvokePushback_KeepsPending(s, stamp) ==
    LET found == {t \in s.manager : t.id = stamp}
        a == IF found /= {}
             THEN [s EXCEPT !.waiting = Append(@, [(CHOOSE t \in found : TRUE)
                                                      EXCEPT !.gen = TRUE])]
             ELSE s
        b == DecOutstanding([a EXCEPT !.latencies = @ + 1])
    IN  IF b.panicked THEN b
        ELSE Account([b EXCEPT !.recvd = @ + 1], stamp)

\* recv(), invoke mode, SandstormInvokeRpc with StatusPushback.
InvokePushback(s, stamp) ==
    LET found == {t \in s.manager : t.id = stamp}
        a == IF found /= {}
             THEN [s EXCEPT !.manager = @ \ found,
                            !.waiting = Append(@, [(CHOOSE t \in found : TRUE)
                                                      EXCEPT !.gen = TRUE])]
             ELSE s
        b == DecOutstanding([a EXCEPT !.latencies = @ + 1])
    IN  IF b.panicked THEN b
        ELSE Account([b EXCEPT !.recvd = @ + 1], stamp)

\* A GetOk handler that records the sample and leaves the pending map alone.
InvokeModeGet_KeepsPending(s, stamp) == [s EXCEPT !.latencies = @ + 1]

\* recv(), invoke mode, SandstormGetRpc: a sample is pushed, and a pending
\* task with that stamp moves to the runnable queue as it is.
InvokeModeGet(s, stamp) ==
    LET found == {t \in s.manager : t.id = stamp}
        a == [s EXCEPT !.latencies = @ + 1]
    IN  IF found /= {}
        THEN [a EXCEPT !.manager = @ \ found,
                       !.waiting = Append(@, CHOOSE t \in found : TRUE)]
        ELSE a

\* recv(), invoke mode, SandstormPutRpc.
InvokeModePut(s, stamp) == [s EXCEPT !.latencies = @ + 1]

\* A native GetOk handler that accounts the last response and keeps the
\* entry of its stamp.
NativeGet_KeepsEntry(s, stamp) ==
    IF \E e \in s.native_state : e.stamp = stamp
    THEN DecOutstanding(Account([s EXCEPT !.recvd = @ + 1,
                                          !.latencies = @ + 1], stamp))
    ELSE [s EXCEPT !.panicked = TRUE]

\* recv(), native mode, SandstormGetRpc.
NativeGet(s, stamp) ==
    LET found == {e \in s.native_state : e.stamp = stamp} IN
    IF found = {} THEN [s EXCEPT !.panicked = TRUE]    \* unwrap() on None
    ELSE LET e == CHOOSE x \in found : TRUE IN
         IF e.count = NUM_OPS
         THEN DecOutstanding(
                  Account([s EXCEPT !.recvd = @ + 1,
                                    !.latencies = @ + 1,
                                    !.native_state = @ \ found], stamp))
         ELSE [s EXCEPT !.wire = @ \cup {[stamp |-> stamp, op |-> "Get",
                                          seq |-> 0]},
                        !.native_state = (@ \ found) \cup
                            {[stamp |-> stamp, count |-> e.count + 1]}]

\* free_packet() at the end of a match arm, on the frame being handled; a
\* handler that panicked does not get there.
free_packet(s) ==
    IF s.panicked THEN s ELSE [s EXCEPT !.frees[Len(s.frees)] = @ + 1]

\* recv(): the body of the loop over the packets of a batch.
RecvPacket(s, p) ==
    IF ~native
    THEN CASE p.op = "Invoke" /\ p.status = "Ok" ->
                  free_packet(InvokeOk(s, p.stamp))
           [] p.op = "Invoke" /\ p.status = "Pushback" ->
                  free_packet(InvokePushback(s, p.stamp))
           [] p.op = "Get" -> free_packet(InvokeModeGet(s, p.stamp))
           [] p.op = "Put" -> free_packet(InvokeModePut(s, p.stamp))
           [] OTHER -> free_packet(s)
    ELSE CASE p.op = "Get" -> free_packet(NativeGet(s, p.stamp))
           [] OTHER -> free_packet(s)

\* recv(): one turn of the loop, with the history of the packets handled.
HandlePacket(s, p) ==
    RecvPacket([s EXCEPT !.handled = Append(@, p), !.frees = Append(@, 0)], p)

\* recv(): while let Some(packet) = packets.pop(), which takes the last
\* element of the vector first; a panic ends the loop.
RECURSIVE RecvBatch(_, _)
RecvBatch(s, packets) ==
    LET iteration[v \in {s}] ==
            IF packets = <<>> \/ v.panicked THEN v
            ELSE RecvBatch(HandlePacket(v, packets[Len(packets)]),
                           SubSeq(packets, 1, Len(packets) - 1))
    IN  iteration[s]

----------------------------------------------------------------------------
\* The environment: what the server and the network can deliver.

\* The oldest request on the wire.
Oldest(w) == CHOOSE r \in w : \A q \in w : r.stamp <= q.stamp

\* The requests the server answers next: the oldest invoke or the oldest GET
\* on the wire.  (recv() handles the answers of one batch last to first.)
Candidates(w) ==
    LET OfKind(op) == {r \in w : r.op = op} IN
    {Oldest(OfKind(op)) : op \in {o \in {"Invoke", "Get"} : OfKind(o) /= {}}}

\* The answers to request r: Ok or Pushback to an invoke, GetOk to a GET.
Answers(r, more) ==
    IF r.op = "Invoke"
    THEN {[op |-> "Invoke", status |-> "Ok", stamp |-> r.stamp]} \cup
         (IF more
          THEN {[op |-> "Invoke", status |-> "Pushback", stamp |-> r.stamp]}
          ELSE {})
    ELSE {[op |-> "Get", status |-> "Ok", stamp |-> r.stamp]}

\* Packets that are not the one answer to a request: any opcode and status,
\* stamped 0 (never a send stamp) or like a request on the wire, which stays
\* there (a duplicate, or a response of the wrong kind).
Spurious(w) ==
    {p \in [op : {"Invoke", "Get", "Put", "Unknown"},
            status : {"Ok", "Pushback", "Other"},
            stamp : {0} \cup {r.stamp : r \in Candidates(w)}] :
        p.op /= "Invoke" => p.status = "Ok"}

IsPushback(p) == p.op = "Invoke" /\ p.status = "Pushback"

\* The run may still see a Pushback or a spurious packet.
MoreEvents(pb, sp) == pb + sp < budget

\* The run may still see a step of a local task end WAITING.
MoreWaits == waits < budget

\* One delivered packet, with the request it answers (none for a spurious
\* packet) and the counters after it.
Choices(w, pb, sp) ==
    {[pkt |-> a, gone |-> {r},
      pb |-> IF IsPushback(a) THEN pb + 1 ELSE pb, sp |-> sp] :
        <<r, a>> \in UNION {{r} \X Answers(r, MoreEvents(pb, sp)) :
                                r \in Candidates(w)}}
    \cup
    (IF reliable \/ ~MoreEvents(pb, sp) THEN {}
     ELSE {[pkt |-> p, gone |-> {}, pb |-> pb, sp |-> sp + 1] :
               p \in Spurious(w)})

\* The batches of at most n packets recv_res() can return, each with the
\* requests it answers and the counters after it; the batch is in delivery
\* order.
RECURSIVE Deliveries(_, _, _, _)
Deliveries(w, pb, sp, n) ==
    {[batch |-> <<>>, gone |-> {}, pb |-> pb, sp |-> sp]} \cup
    (IF n = 0 THEN {}
     ELSE UNION {{[d EXCEPT !.batch = <<c.pkt>> \o @, !.gone = c.gone \cup @] :
                     d \in Deliveries(w \ c.gone, c.pb, c.sp, n - 1)} :
                 c \in Choices(w, pb, sp)})

\* What a call of recv_res() can return: nothing, or a batch.  A reliable
\* server has an answer ready at every poll while a request is unanswered.
Polls(w, pb, sp) ==
    {d \in Deliveries(w, pb, sp, MaxBatch) :
        (reliable /\ w /= {}) => d.batch /= <<>>}

----------------------------------------------------------------------------
\* No call of abc() yet.
NoCall ==
    [rng |-> 0, k |-> 0, panicked |-> FALSE, gets |-> 0, puts |-> 0,
     tenant |-> 0, key |-> <<>>, value |-> <<>>]

\* PushbackRecvSend::new(): the workload is created with the literal 0 where
\* the configuration's put_pct was meant, here over one key and one tenant.
new_workload(pct) == Pushback_new(key_len, value_len, 1, 0, 1)

\* The counters, maps and queues of a loop that has not run, with the
\* histories of the model.
Fresh ==
    /\ sent = 0 /\ recvd = 0 /\ outstanding = 0 /\ latencies = 0
    /\ finished = FALSE /\ FINISHED = FALSE /\ stop = 0
    /\ manager = {} /\ waiting = <<>> /\ native_state = {}
    /\ clock = 0 /\ pc = "send" /\ panicked = FALSE
    /\ wire = {} /\ pushbacks = 0 /\ waits = 0 /\ spurious = 0
    /\ inflight = {} /\ misaccounted = FALSE /\ entryDone = FALSE
    /\ batch = <<>> /\ handled = <<>> /\ stalls = 0 /\ taskstate = "NONE"
    /\ lost = 0 /\ dropped = 0 /\ losing = FALSE
    /\ frees = <<>>

\* No request generator runs.
NoGenerator ==
    /\ use_invoke = FALSE /\ requests_sent = 0 /\ frame = NoFrame
    /\ exit_code = <<>> /\ nic = NoSend /\ submitted = 0 /\ warnings = 0

\* Drop has printed nothing.
NoSummary ==
    [done |-> FALSE, printed |-> FALSE, panicked |-> FALSE, m |-> 0, t |-> 0]

\* No instance is dropped.
NoReport == samples = <<>> /\ master = FALSE /\ summary = NoSummary

\* No call of mul() is under way.
NoCompute ==
    compute = [pc |-> "none", init |-> 0, limit |-> 0, i |-> 0,
               mul |-> <<0, 0, 0, 0>>, steps |-> 0, overflow_checks |-> FALSE]

\* main() has not set up its loops.
NoCluster == cores = <<>> /\ main = "boot"

\* PushbackRecvSend::new(): the state after construction, for a configuration.
New ==
    /\ native \in BOOLEAN
    /\ requests \in (1..MaxSmallReqs) \cup {Window + MaxSmallReqs}
    /\ Fresh
    /\ key_len = KeyWidth /\ value_len = 0
    /\ workload = new_workload(put_pct)
    /\ call = NoCall
    /\ NoGenerator /\ NoReport /\ NoCompute /\ NoCluster

\* The loop constructed with a small response target, facing a network that
\* may also deliver packets that answer nothing.
Init ==
    /\ put_pct = 0 /\ New
    /\ responses \in 1..MaxResps /\ reliable = FALSE /\ budget = MaxEvents

\* The loop as setup_send_recv() constructs it: the response target is
\* 34 * 1000 * 1000, whatever num_reqs is.
InitSetup ==
    /\ put_pct = 0 /\ New
    /\ responses = RespTarget /\ reliable = FALSE /\ budget = MaxEvents

\* The same in invoke mode, for runs with two events.
InitInvoke ==
    /\ put_pct = 0 /\ New /\ ~native /\ requests <= MaxSmallReqs
    /\ responses = RespTarget /\ reliable = FALSE /\ budget = MaxEventsWide

\* The loop in invoke mode with a small response target, facing a reliable
\* server that may push back two invokes.
InitTasks ==
    /\ put_pct = 0 /\ New /\ ~native
    /\ responses \in 1..MaxResps /\ reliable = TRUE /\ budget = MaxEventsWide

\* The loop with a small response target, facing a reliable server behind a
\* network that may lose requests.
InitLossy ==
    /\ put_pct = 0 /\ New
    /\ responses \in 1..MaxResps /\ reliable = TRUE /\ budget = MaxEvents

\* The loop in native mode, configured with put_pct = 100.
InitPuts ==
    /\ put_pct = Percent /\ New /\ native
    /\ responses \in 1..MaxResps /\ reliable = FALSE /\ budget = MaxEvents

\* The loop of setup_send_recv() facing a reliable server.
InitReliable ==
    /\ put_pct = 0 /\ New
    /\ responses = RespTarget /\ reliable = TRUE /\ budget = MaxEvents

\* The send phase of execute() leaves the loop in state s.
SendPhase(s) ==
    /\ sent' = s.sent
    /\ outstanding' = s.outstanding
    /\ manager' = s.manager
    /\ native_state' = s.native_state
    /\ clock' = s.clock
    /\ wire' = s.wire
    /\ inflight' = s.inflight
    /\ workload' = s.workload
    /\ panicked' = s.panicked
    /\ entryDone' = (responses <= recvd)
    /\ taskstate' = "NONE"
    /\ pc' = "recv"
    /\ UNCHANGED <<config, recvd, latencies, finished, FINISHED, stop, waiting,
                   pushbacks, waits, spurious, misaccounted,
                   batch, handled, frees, loss, losing, call,
                   generator, report, compute, cluster>>

\* execute(), first step: self.send().
Send ==
    /\ pc = "send" /\ ~panicked
    /\ SendPhase(send(Fields))
    /\ UNCHANGED stalls

\* The same when the cycle counter has not advanced since it was last read:
\* the first rdtsc() of the loop returns the value of the read before.
SendStalled ==
    /\ pc = "send" /\ ~panicked
    /\ stalls < MaxStalls /\ clock > 0
    /\ sent < requests /\ outstanding < Window
    /\ SendPhase(SendLoop(SendStamped(Fields, clock)))
    /\ stalls' = stalls + 1

\* A final check of recv() that misses the response that reaches the target.
AllReceived_OffByOne(s) == responses < s.recvd

\* recv(), after the batch: all response packets have been received.
AllReceived(s) == responses <= s.recvd

\* The builds to tell apart in a receive phase: with more requests
\* outstanding than a batch has packets no subtraction can overflow, and the
\* debug and the release build behave alike.
Builds(n) == IF n < MaxBatch THEN BOOLEAN ELSE {FALSE}

\* execute(), second step: self.recv().
Recv ==
    /\ pc = "recv" /\ ~panicked
    /\ IF responses <= recvd
       THEN /\ finished' = TRUE
            /\ UNCHANGED <<recvd, outstanding, latencies, stop, manager, waiting,
                           native_state, clock, panicked, wire, pushbacks,
                           spurious, inflight, misaccounted, batch, handled,
                           frees>>
       ELSE \E d \in Polls(wire, pushbacks, spurious),
               checks \in Builds(outstanding) :
              LET s == RecvBatch([Fields EXCEPT !.wire = wire \ d.gone,
                                                !.overflow_checks = checks],
                                 d.batch)
                  done == ~s.panicked /\ AllReceived(s)
              IN  /\ recvd' = s.recvd
                  /\ outstanding' = s.outstanding
                  /\ latencies' = s.latencies
                  /\ manager' = s.manager
                  /\ waiting' = s.waiting
                  /\ native_state' = s.native_state
                  /\ panicked' = s.panicked
                  /\ wire' = s.wire
                  /\ inflight' = s.inflight
                  /\ misaccounted' = s.misaccounted
                  /\ pushbacks' = d.pb
                  /\ spurious' = d.sp
                  /\ batch' = d.batch
                  /\ handled' = s.handled
                  /\ frees' = s.frees
                  /\ clock' = IF done THEN clock + 1 ELSE clock
                  /\ stop' = IF done THEN clock + 1 ELSE stop
                  /\ UNCHANGED finished
    /\ pc' = IF panicked' THEN pc ELSE "task"
    /\ losing' = FALSE
    /\ UNCHANGED <<config, sent, FINISHED, waits, entryDone, stalls,
                   taskstate, loss, workload, call,
                   generator, report, compute, cluster>>

\* TaskManager::execute_task(), whose code is in splinter's manager module:
\* a task with a generator runs until it yields, waits or completes; a task
\* without one has nothing to resume and reports none of these states.
TaskStates(m) ==
    IF m.gen
    THEN {"YIELDED", "COMPLETED"} \cup
         (IF MoreWaits THEN {"WAITING"} ELSE {})
    ELSE {"INITIALIZED"}

\* TaskManager::get_id() after a step that ended WAITING: the task has stamped
\* its follow-up GET with a new cycle count, which is now its id.
get_id(m, now) == now

\* A requeue that puts the task at the head of the runnable queue.
push_back_AtHead(q, m) == <<m>> \o q

\* A pop that takes two tasks off the runnable queue.
pop_front_Two(q) == IF Len(q) > 1 THEN Tail(Tail(q)) ELSE Tail(q)

\* VecDeque::pop_front on the runnable queue: what it leaves in the queue.
pop_front(q) == Tail(q)

\* VecDeque::push_back on the runnable queue.
push_back(q, m) == Append(q, m)

\* execute(), third step: self.execute_task(), and then the finished flag.
ExecuteTask ==
    /\ pc = "task" /\ ~panicked
    /\ IF waiting = <<>>
       THEN /\ taskstate' = "NONE"
            /\ UNCHANGED <<manager, waiting, clock, wire, waits>>
       ELSE LET m == Head(waiting) IN
            \E state \in TaskStates(m) :
              /\ taskstate' = state
              /\ CASE state = "YIELDED" ->
                       /\ waiting' = push_back(pop_front(waiting), m)
                       /\ UNCHANGED <<manager, clock, wire, waits>>
                  [] state = "WAITING" ->
                       LET id == get_id(m, clock + 1) IN
                       /\ waiting' = pop_front(waiting)
                       /\ manager' = {t \in manager : t.id /= id}
                                         \cup {[m EXCEPT !.id = id]}
                       /\ wire' = wire \cup {[stamp |-> id, op |-> "Get",
                                                seq |-> 0]}
                       /\ clock' = clock + 1
                       /\ waits' = waits + 1
                  [] OTHER ->
                       /\ waiting' = pop_front(waiting)
                       /\ UNCHANGED <<manager, clock, wire, waits>>
    /\ FINISHED' = (FINISHED \/ finished)
    /\ batch' = <<>> /\ handled' = <<>> /\ frees' = <<>>
    /\ pc' = "send"
    /\ UNCHANGED <<config, sent, recvd, outstanding, latencies, finished, stop,
                   native_state, panicked, pushbacks, spurious, inflight,
                   misaccounted, entryDone, stalls, loss, losing,
                   workload, call,
                   generator, report, compute, cluster>>

\* What a loss leaves unchanged: all of the loop.
LoopUnchanged ==
    UNCHANGED <<config, sent, recvd, outstanding, latencies, finished,
                FINISHED, stop, manager, waiting, native_state, clock, pc,
                panicked, pushbacks, waits, spurious, inflight, misaccounted,
                entryDone, batch, handled, frees, stalls,
                taskstate, workload, call, generator, report, compute, cluster>>

\* The network loses a request, the next the server would have answered:
\* it is never answered.  The losses of a run come in one burst between two
\* polls.
Lose ==
    /\ pc = "recv" /\ ~panicked
    /\ dropped = 0 \/ (losing /\ dropped < MaxLost)
    /\ \E r \in Candidates(wire) :
         /\ wire' = wire \ {r}
         /\ lost' = IF r.seq > 0 THEN lost + 1 ELSE lost
    /\ dropped' = dropped + 1
    /\ losing' = TRUE
    /\ LoopUnchanged

\* The network loses every request that is on the wire.
LoseAll ==
    /\ pc = "recv" /\ ~panicked
    /\ wire /= {}
    /\ dropped = 0 \/ losing
    /\ wire' = {}
    /\ lost' = lost + Cardinality({r \in wire : r.seq > 0})
    /\ dropped' = dropped + Cardinality(wire)
    /\ losing' = TRUE
    /\ LoopUnchanged

\* The values of put_pct the generator is created with: the ends of [0, 100],
\* their neighbours and the middle.
PutPcts == {0, 1, Percent \div 2, Percent - 1, Percent}

\* No loop runs.
NoLoop ==
    /\ native = TRUE /\ requests = 1 /\ responses = 1
    /\ reliable = TRUE /\ budget = 0
    /\ Fresh

\* No workload is in use.
NoWorkload ==
    /\ put_pct = 0 /\ key_len = KeyWidth /\ value_len = 0
    /\ workload = new_workload(put_pct) /\ call = NoCall

\* The workload generator on its own, as its unit tests drive it: created
\* for a configuration whose keys have room for the key index.
InitWorkload ==
    /\ NoLoop
    /\ put_pct \in PutPcts
    /\ key_len \in KeyWidth..(KeyWidth + MaxPad)
    /\ value_len \in 0..MaxValueLen
    /\ \E nkeys \in (1..MaxKeys) \cup {ManyKeys}, ntenants \in 1..MaxTenants :
           workload = Pushback_new(key_len, value_len, nkeys, put_pct,
                                   ntenants)
    /\ call = NoCall
    /\ NoGenerator /\ NoReport /\ NoCompute /\ NoCluster

\* The draws of rng the calls are made with: those whose residue modulo 100
\* is a value of put_pct or the one below it.
RngDraws == {g \in Rng : \E pct \in PutPcts : g % Percent \in {pct - 1, pct}}

\* The key indices the calls are made with: the smallest of the range, and
\* those at and around the first that needs a second byte.
KeyDraws(n) == {k \in ZipfSamples(n) : k <= MaxKeys \/ k >= Byte - 1}

\* A call of abc() with recording callbacks.
Abc ==
    /\ ~call.panicked
    /\ \E g \in RngDraws, t \in ZipfSamples(workload.n_tenants),
          k \in KeyDraws(workload.n_keys) :
         LET c == abc(workload, g, t, k) IN
         /\ workload' = c.workload
         /\ call' = [rng |-> g, k |-> k, panicked |-> c.panicked,
                     gets |-> c.gets, puts |-> c.puts,
                     tenant |-> c.tenant, key |-> c.key, value |-> c.value]
    /\ UNCHANGED <<config, loop, generator, report, compute, cluster>>

NextWorkload == Abc

SpecWorkload == InitWorkload /\ [][NextWorkload]_vars

\* RequestGenerator::new(): no request has been sent.
InitGenerator ==
    /\ NoLoop /\ NoWorkload /\ NoReport /\ NoCompute /\ NoCluster
    /\ use_invoke \in BOOLEAN
    /\ requests_sent = 0 /\ frame = NoFrame /\ exit_code = <<>>
    /\ nic = NoSend /\ submitted = 0 /\ warnings = 0

\* The lengths of the keys and payloads the frames are built for: short
\* ones, and those up to the first a u16 cannot hold.
LenDraws == (0..MaxLen) \cup ((U16 - MaxSlack)..U16)

\* What the building of a frame leaves unchanged.
BuildUnchanged ==
    UNCHANGED <<config, loop, compute, cluster, workload, call, report,
                use_invoke, requests_sent, exit_code, nic, submitted,
                warnings>>

\* create_get_request() for a key of some length, in a debug or a release
\* build.
CreateGet ==
    /\ exit_code = <<>>
    /\ \E klen \in LenDraws, checks \in BOOLEAN :
         frame' = create_get_request(klen, checks)
    /\ BuildUnchanged

\* create_invoke_request() for a payload of some length.
CreateInvoke ==
    /\ exit_code = <<>>
    /\ \E plen \in LenDraws, checks \in BOOLEAN :
         frame' = create_invoke_request(plen, checks)
    /\ BuildUnchanged

\* execute(): generate_request() builds one request, hands it to the NIC and
\* counts it.
GenerateRequest ==
    /\ exit_code = <<>> /\ submitted < MaxGenerated
    /\ \E checks \in BOOLEAN :
         frame' = IF use_invoke
                  THEN create_invoke_request(NameLen + TableIdLen + FixedKeyLen,
                                             checks)
                  ELSE create_get_request(FixedKeyLen, checks)
    /\ \E res \in SendResults :
         LET a == after_send(res, requests_sent) IN
         /\ nic' = res
         /\ requests_sent' = a.requests_sent
         /\ exit_code' = a.exit_code
         /\ warnings' = warnings + a.warned
    /\ submitted' = submitted + 1
    /\ UNCHANGED <<config, loop, compute, cluster, workload, call, report,
                use_invoke>>

NextGenerator == GenerateRequest \/ CreateGet \/ CreateInvoke

SpecGenerator == InitGenerator /\ [][NextGenerator]_vars

\* An instance whose latency vector is still empty.
InitReport ==
    /\ NoLoop /\ NoWorkload /\ NoGenerator /\ NoCompute /\ NoCluster
    /\ samples = <<>> /\ master \in BOOLEAN /\ summary = NoSummary

\* recv() pushes a latency sample.
PushLatency ==
    /\ summary = NoSummary /\ Len(samples) < MaxSamples
    /\ \E v \in 1..MaxLatency : samples' = Append(samples, v)
    /\ UNCHANGED <<config, loop, compute, cluster, workload, call, generator,
                   master, summary>>

\* The instance is dropped.
Drop ==
    /\ summary = NoSummary
    /\ summary' = drop(samples, master)
    /\ UNCHANGED <<config, loop, compute, cluster, workload, call, generator,
                   master, samples>>

NextReport == PushLatency \/ Drop

SpecReport == InitReport /\ [][NextReport]_vars

\* The first byte of a GetOk payload, which recv() passes to mul().
InitBytes == (0..MaxInit) \cup {Byte - 1}

\* recv() calls self.mul(init, NUM_MUL), in a debug or a release build.
InitCompute ==
    /\ NoLoop /\ NoWorkload /\ NoGenerator /\ NoReport /\ NoCluster
    /\ \E init \in InitBytes, checks \in BOOLEAN :
           compute = mul_entry(init, NUM_MUL, checks)

\* What mul() leaves unchanged.
ComputeUnchanged ==
    UNCHANGED <<config, loop, workload, call, generator, report, cluster>>

\* mul(): one iteration of `for i in 1..limit`.
MulStep ==
    /\ compute.pc = "loop" /\ in_range(compute.i, compute.limit)
    /\ compute' = mul_step(compute)
    /\ ComputeUnchanged

\* mul(): the range is exhausted, `return mul`.
MulReturn ==
    /\ compute.pc = "loop" /\ ~in_range(compute.i, compute.limit)
    /\ compute' = [compute EXCEPT !.pc = "returned"]
    /\ ComputeUnchanged

NextCompute == MulStep \/ MulReturn

SpecCompute == InitCompute /\ [][NextCompute]_vars

\* The loops of main(), by their position in senders_receivers.
Cores == 1..NumCores

\* PushbackRecvSend::new(), as far as the response target goes.
NewCore == [recvd |-> 0, finished |-> FALSE]

\* recv() of one loop, as far as the response target goes: with the target
\* reached it sets `finished` and returns, else it counts the k responses it
\* is handed.
core_recv(c, k) ==
    IF responses <= c.recvd THEN [c EXCEPT !.finished = TRUE]
    ELSE [c EXCEPT !.recvd = @ + k]

\* main() after net_context.execute(): the 8 loops are set up, each with the
\* same response target, and the main thread waits for FINISHED.
InitCluster ==
    /\ native = TRUE /\ requests = 1 /\ reliable = TRUE /\ budget = 0
    /\ responses \in 1..MaxCoreResps
    /\ Fresh /\ NoWorkload /\ NoGenerator /\ NoReport /\ NoCompute
    /\ cores = [c \in Cores |-> NewCore]
    /\ main = "poll"

\* What the main thread and the loops, seen by their targets, leave unchanged.
ClusterUnchanged ==
    UNCHANGED <<config, thread, workload, call, generator, report, compute>>

\* execute() on core c, while the schedulers run: the receive phase is
\* handed one response or none, and a loop that is finished sets the flag
\* all loops share.
Execute(c) ==
    /\ main /= "stopped"
    /\ \E k \in {0, 1} :
         LET after == core_recv(cores[c], k) IN
         /\ cores' = [cores EXCEPT ![c] = after]
         /\ FINISHED' = (FINISHED \/ after.finished)
    /\ UNCHANGED main
    /\ ClusterUnchanged

\* main(): `while !FINISHED { sleep }`.  FINISHED is a `static mut` that the
\* loops write and the main thread reads without synchronisation: a read can
\* return the flag as written or as it was before.
Poll ==
    /\ main = "poll"
    /\ \E seen \in (IF FINISHED THEN BOOLEAN ELSE {FALSE}) :
         main' = IF seen THEN "stop" ELSE "poll"
    /\ UNCHANGED <<cores, FINISHED>>
    /\ ClusterUnchanged

\* main(): net_context.stop().
Stop ==
    /\ main = "stop"
    /\ main' = "stopped"
    /\ UNCHANGED <<cores, FINISHED>>
    /\ ClusterUnchanged

NextCluster == (\E c \in Cores : Execute(c)) \/ Poll \/ Stop

SpecCluster == InitCluster /\ [][NextCluster]_vars

\* The scheduler invokes execute() again and again.
Next == Send \/ Recv \/ ExecuteTask

Spec == Init /\ [][Next]_vars

SpecSetup == InitSetup /\ [][Next]_vars

SpecInvoke == InitInvoke /\ [][Next]_vars

SpecTasks == InitTasks /\ [][Next]_vars

SpecPuts == InitPuts /\ [][Next]_vars

\* The loop behind a network that loses requests.
NextLossy == Next \/ Lose \/ LoseAll

SpecLossy == InitLossy /\ [][NextLossy]_vars

\* The loop on a machine whose cycle counter may stand still between two
\* reads.
NextStalled == Next \/ SendStalled

SpecStalled == Init /\ [][NextStalled]_vars

\* The loop of setup_send_recv() under a reliable server and a scheduler that
\* keeps invoking execute(): no step of an invocation is postponed forever.
LiveSpec == InitReliable /\ [][Next]_vars /\ WF_vars(Next)

----------------------------------------------------------------------------
\* a - b on u64 values (U64Max standing for 2^64 - 1).
Sub64(a, b) == IF a >= b THEN a - b ELSE U64Max - (b - a - 1)

\* The pushed-back tasks that have not completed: in the runnable queue, or
\* pending on a follow-up GET.
LiveTasks == {waiting[i] : i \in 1..Len(waiting)} \cup {t \in manager : t.gen}

\* Between two invocations of execute().
Returned == pc = "send"

\* C1: in every reachable state `outstanding` lies in [0, 32], whatever
\* responses are delivered.
C1_OutstandingInWindow == outstanding \in 0..Window

\* C2 as stated: `outstanding` is the number of sent requests whose terminal
\* event has not happened, a pushed-back invoke counting until its local task
\* completes.  (Stated for runs in which every packet answers a request.)
C2_CountsUntilTaskCompletes ==
    (spurious = 0 /\ ~panicked) =>
        outstanding = Cardinality(inflight) + Cardinality(LiveTasks)

\* C2 as amended: `outstanding` is `sent` minus `recvd` in u64 arithmetic,
\* and, as long as every packet answers a request, the number of sent
\* requests no Ok or Pushback response has been accounted for: a pushed-back
\* invoke stops counting when its Pushback response is handled.
C2_OutstandingIsSentMinusRecvd ==
    ~panicked =>
        /\ outstanding = Sub64(sent, recvd)
        /\ spurious = 0 => outstanding = Cardinality(inflight)

\* A Pushback response has been handled and its task is still live.
C2_Witness ==
    /\ spurious = 0 /\ ~panicked
    /\ pushbacks > 0 /\ LiveTasks /= {}
    /\ outstanding < Window

\* C3: the send phase never sends more than `requests` requests.
C3_SentAtMostRequests == sent <= requests

\* C4: once done is signalled, there are as many latency samples as
\* accounted responses, also when local tasks issued follow-up GETs.
\* (Stated for runs in which every packet answers a request.)
C4_LatenciesEqualRecvd == (finished /\ spurious = 0) => latencies = recvd

\* C5: recv() accounts a completion only for a response whose stamp is that
\* of a sent request still outstanding.
C5_OnlyOutstandingStampsAccounted == ~misaccounted

\* C6 as stated: an invocation at whose end recvd >= responses holds has set
\* `stop` and signalled done (finished and FINISHED) when it returns.
C6_DoneInSameInvocation ==
    (Returned /\ responses <= recvd) => (stop /= 0 /\ finished /\ FINISHED)

\* C6 as amended: an invocation at whose end recvd >= responses holds has set
\* `stop` when it returns; done is signalled (finished and FINISHED) when an
\* invocation returns that began with recvd >= responses, that is by the
\* next one.
C6_StopThenDoneNextInvocation ==
    (Returned /\ responses <= recvd) =>
        (stop /= 0 /\ (entryDone => (finished /\ FINISHED)))

\* An invocation that began with the target reached has returned.
C6_Witness == Returned /\ responses <= recvd /\ entryDone /\ FINISHED

\* C7: `recvd` never exceeds the response target, whatever the batches.
\* (Stated for runs in which every packet answers a request.)
C7_RecvdAtMostTarget == spurious = 0 => recvd <= responses

\* C8: with a reliable server and fair invocation of execute(), the core
\* eventually has received num_reqs responses and signals done.
C8_EventuallyDone == <>(recvd >= requests /\ FINISHED)

\* C9: under a server whose answers are all terminal and with the response
\* target equal to the request target, nothing is in flight when done is
\* signalled.
C9_NothingInFlightAtDone ==
    (finished /\ spurious = 0 /\ pushbacks = 0 /\ responses = requests) =>
        (outstanding = 0 /\ manager = {} /\ waiting = <<>>)

\* C10: a send phase that finds sent < requests fills the window to 32, also
\* after responses were handled; with the window full it sends nothing; a
\* step that delivers no packet leaves `outstanding` and `sent` as they are;
\* and execute() always runs on to its return.
C10_SendPhaseFills ==
    (pc = "send" /\ pc' = "recv") =>
        /\ (sent < requests /\ outstanding <= Window) =>
              (outstanding' = Window /\ sent' = sent + (Window - outstanding))
        /\ outstanding = Window => (sent' = sent /\ outstanding' = Window)

C10_QuietStepKeeps ==
    (pc /= "send" /\ wire \subseteq wire' /\ spurious' = spurious) =>
        (outstanding' = outstanding /\ sent' = sent)

C10_WindowSaturation ==
    /\ [][C10_SendPhaseFills /\ C10_QuietStepKeeps]_vars
    /\ [](~panicked => ENABLED Next)

\* The window has been refilled after responses drained.
C10_Witness == outstanding = Window /\ sent > Window /\ recvd > 0

\* A step of recv() that handled exactly one packet, of the given kind.
HandledOne(op, status) ==
    /\ pc = "recv" /\ Len(handled') = 1
    /\ handled'[1].op = op /\ handled'[1].status = status

\* C11: handling an InvokeOk response in invoke mode removes the pending
\* entry with the response's stamp, appends one latency sample, decrements
\* `outstanding` by exactly 1, increments `recvd` by exactly 1 and leaves the
\* runnable queue and every other pending entry unchanged.
C11_InvokeOkEffect ==
    [][(~native /\ HandledOne("Invoke", "Ok")) =>
          /\ ~panicked'
          /\ manager' = {t \in manager : t.id /= handled'[1].stamp}
          /\ latencies' = latencies + 1
          /\ outstanding' = outstanding - 1
          /\ recvd' = recvd + 1
          /\ waiting' = waiting]_vars

\* C12: handling an InvokePushback response whose stamp is in the pending
\* map removes that TaskManager from pending, gives it a generator and
\* appends it at the tail of the runnable queue; it appends one latency
\* sample, decrements `outstanding` by 1 and increments `recvd` by 1.  (The
\* read-set of a task is not part of the model.)
C12_PushbackEffect ==
    [][(/\ ~native /\ HandledOne("Invoke", "Pushback")
        /\ \E t \in manager : t.id = handled'[1].stamp) =>
          LET m == CHOOSE t \in manager : t.id = handled'[1].stamp IN
          /\ ~panicked'
          /\ manager' = manager \ {m}
          /\ waiting' = Append(waiting, [m EXCEPT !.gen = TRUE])
          /\ latencies' = latencies + 1
          /\ outstanding' = outstanding - 1
          /\ recvd' = recvd + 1]_vars

\* C13: a Pushback response whose stamp is not in the pending map is dropped
\* without a crash: the pending map, the runnable queue, `recvd`,
\* `outstanding` and the latency vector are unchanged by it.
C13_UnknownPushbackDropped ==
    [][(/\ ~native /\ HandledOne("Invoke", "Pushback")
        /\ ~\E t \in manager : t.id = handled'[1].stamp) =>
          /\ ~panicked'
          /\ manager' = manager /\ waiting' = waiting
          /\ recvd' = recvd /\ outstanding' = outstanding
          /\ latencies' = latencies]_vars

\* C14: when add_request() is called with a stamp already in the pending
\* map, the entry is overwritten by the new TaskManager (the map does not
\* grow, nothing aborts) and the send proceeds: `sent` and `outstanding` are
\* each incremented for that request as for the others of the send phase.
C14_DuplicateStampOverwrites ==
    [][(/\ ~native /\ stalls' = stalls + 1
        /\ \E t \in manager : t.id = clock) =>
          /\ ~panicked'
          /\ \A t \in manager' : t.id = clock => t = NewTask(clock)
          /\ NewTask(clock) \in manager'
          /\ sent' - sent = Window - outstanding
          /\ outstanding' = Window
          /\ Cardinality(manager') =
                 Cardinality(manager) + (sent' - sent) - 1]_vars

\* A send phase has stamped an invoke like an entry of the pending map: the
\* map holds one entry less than there are requests outstanding.
C14_Witness ==
    /\ ~native /\ stalls > 0 /\ spurious = 0 /\ pushbacks = 0
    /\ Cardinality(manager) = outstanding - 1

\* C15: execute_task() pops the head of the runnable queue and a task whose
\* step returns YIELDED is re-enqueued at the tail; every other task of the
\* queue moves up one place with each step, and the send and receive phases
\* only append, so the tasks are stepped in strict FIFO order and none is
\* skipped.
C15_StepAdvancesQueue ==
    (pc = "task" /\ waiting /= <<>>) =>
        /\ taskstate' /= "NONE"
        /\ taskstate' = "YIELDED" =>
               waiting' = Append(Tail(waiting), Head(waiting))
        /\ taskstate' /= "YIELDED" => waiting' = Tail(waiting)

C15_PhasesOnlyAppend ==
    pc /= "task" =>
        /\ Len(waiting') >= Len(waiting)
        /\ SubSeq(waiting', 1, Len(waiting)) = waiting

C15_YieldRequeuesAtTail ==
    [][C15_StepAdvancesQueue /\ C15_PhasesOnlyAppend]_vars

\* A task has yielded with another task behind it in the queue, which is
\* now at the head.
C15_Witness ==
    /\ pc = "send" /\ taskstate = "YIELDED"
    /\ Len(waiting) >= 2 /\ waiting[1] /= waiting[Len(waiting)]

\* C16: a stepped task that returns WAITING is re-inserted into the pending
\* map under a new stamp, that of its follow-up GET: not the stamp of the
\* original invoke nor that of a request on the wire or of a pending entry;
\* and when the GetOk response with that stamp is handled the task is
\* removed from pending and appended to the runnable queue.
C16_WaitingGoesPending ==
    (pc = "task" /\ taskstate' = "WAITING") =>
        \E id \in {t.id : t \in manager'} :
            /\ id /= Head(waiting).id
            /\ id \notin {t.id : t \in manager}
            /\ id \notin {r.stamp : r \in wire}
            /\ manager' = manager \cup {[Head(waiting) EXCEPT !.id = id]}
            /\ waiting' = Tail(waiting)
            /\ wire' = wire \cup {[stamp |-> id, op |-> "Get", seq |-> 0]}

C16_GetOkMakesRunnable ==
    (/\ ~native /\ HandledOne("Get", "Ok")
     /\ \E t \in manager : t.id = handled'[1].stamp) =>
        LET m == CHOOSE t \in manager : t.id = handled'[1].stamp IN
        /\ manager' = manager \ {m}
        /\ waiting' = Append(waiting, m)

C17_PhasesInOrder ==
    /\ pc = "send" => (pc' = "recv" /\ waiting' = waiting)
    /\ pc = "recv" => ((pc' = "task" \/ panicked')
                         /\ Len(waiting') >= Len(waiting))
    /\ pc = "task" => pc' = "send"

C17_AtMostOneTask ==
    pc = "task" =>
        /\ Len(waiting') >= Len(waiting) - 1
        /\ waiting = <<>> => (waiting' = <<>> /\ taskstate' = "NONE")
        /\ waiting /= <<>> =>
               /\ taskstate' /= "NONE"
               /\ SubSeq(waiting', 1, Len(waiting) - 1) = Tail(waiting)

C17_SendRecvThenOneTask == [][C17_PhasesInOrder /\ C17_AtMostOneTask]_vars

\* The receive phase of this invocation has enqueued a task into the empty
\* queue: the task step that follows resumes it.
C17_Witness ==
    /\ pc = "task" /\ Len(handled) = 1 /\ IsPushback(handled[1])
    /\ waiting = <<[id |-> handled[1].stamp, gen |-> TRUE]>>

\* C18: in native mode `native_state` holds an entry for a stamp exactly
\* from the send of that request until its NUM_OPS-th GetOk response is
\* handled; handling that response removes the entry, increments `recvd`
\* and decrements `outstanding`; so, the stamps of distinct sends being
\* distinct, `native_state` has as many entries as requests are outstanding.
C18_EntriesAreOutstanding ==
    native =>
        /\ {e.stamp : e \in native_state} = inflight
        /\ \A e \in native_state : e.count \in 1..NUM_OPS
        /\ Cardinality(native_state) = outstanding

C18_LastGetOkRemoves ==
    (/\ native /\ HandledOne("Get", "Ok")
     /\ \E e \in native_state : e.stamp = handled'[1].stamp) =>
        /\ native_state' =
               {e \in native_state : e.stamp /= handled'[1].stamp}
        /\ recvd' = recvd + 1
        /\ outstanding' = outstanding - 1

C19_HandledInDeliveryOrder ==
    /\ Len(handled) <= Len(batch)
    /\ \A i \in 1..Len(handled) : handled[i] = batch[i]

\* The requests of send() the server has still to answer.
SentOnWire == {r \in wire : r.seq > 0}

\* C20 as stated: there is no timeout, retry or cancellation.  If k sent
\* requests are lost and the server sends no spurious response, then
\* outstanding >= k in every later state and at most 32 - k requests are in
\* flight; with k = 32 the core never sends again and never signals done.
C20_Leak ==
    /\ outstanding >= lost
    /\ Cardinality(SentOnWire) <= Window - lost

C20_NeverDoneAfterwards ==
    lost >= Window =>
        (sent' = sent /\ finished' = finished /\ FINISHED' = FINISHED)

C20_LeakThenNeverDone == []C20_Leak /\ [][C20_NeverDoneAfterwards]_vars

\* C20 as amended: k counts the lost requests of the send phase.  Then
\* outstanding >= k in every later state and at most 32 - k of them are in
\* flight; with k = 32 the core never sends again and accounts no further
\* response, so it signals done afterwards only if recvd >= responses held
\* already.
C20_Stuck ==
    lost >= Window =>
        /\ sent' = sent /\ recvd' = recvd /\ outstanding' = Window
        /\ recvd < responses => (~finished' /\ ~FINISHED')

C20_LeakIsPermanent == []C20_Leak /\ [][C20_Stuck]_vars

\* The whole window has been lost after a response was accounted and the
\* window refilled, and the loop has been invoked since.
C20_Witness ==
    /\ lost = Window /\ outstanding = Window /\ recvd > 0
    /\ pc = "send" /\ ~losing

----------------------------------------------------------------------------
\* The residues of the draw that issue a put.
PutResidues(pct) == {r \in 0..(Percent - 1) : ~is_get(r, pct)}

\* C21: abc() issues a get iff the residue of its draw modulo 100 is at
\* least put_pct, otherwise a put: put_pct of the 100 residues yield a put,
\* put_pct = 0 never does, put_pct = 100 always does, and every call invokes
\* one of the two callbacks, once.
C21_GetIffResidueAtLeastPutPct ==
    /\ Cardinality(PutResidues(workload.put_pct)) = workload.put_pct
    /\ call /= NoCall =>
        /\ call.gets + call.puts = 1
        /\ call.gets = 1 <=> (call.rng % Percent) >= workload.put_pct
        /\ workload.put_pct = 0 => call.puts = 0
        /\ workload.put_pct = Percent => call.gets = 0

\* A draw of at least 100 whose residue is below put_pct has issued a put.
C21_Witness ==
    /\ call /= NoCall /\ call.puts = 1 /\ call.rng >= Percent
    /\ workload.put_pct = 1

\* C22: with put_pct = 100 in the configuration of a native client, every
\* request the send phase transmits is a PUT.
C22_OnlyPutsAtPutPct100 ==
    (native /\ put_pct = Percent) => \A r \in wire : r.op = "Put"

\* The first 4 bytes of a key, decoded as a little-endian number.
Prefix(key) ==
    key[1] + Byte * (key[2] + Byte * (key[3] + Byte * key[4]))

\* C23: after any sequence of calls of abc(), the key handed to the callback
\* is key_len bytes long, its first 4 bytes are the little-endian encoding of
\* the key index sampled in that call and the other bytes are zero; the value
\* handed to put is value_len zero bytes.
C23_KeyIsIndexThenZeros ==
    (call /= NoCall /\ ~call.panicked) =>
        /\ Len(call.key) = key_len
        /\ Prefix(call.key) = call.k
        /\ \A i \in 1..KeyWidth : call.key[i] \in 0..(Byte - 1)
        /\ \A i \in (KeyWidth + 1)..Len(call.key) : call.key[i] = 0
        /\ call.puts = 1 => call.value = Zeros(value_len)

\* A put has been issued for a key index that needs two bytes, with a key
\* longer than the index and a value that is not empty.
C23_Witness ==
    /\ call /= NoCall /\ call.puts = 1 /\ call.k > Byte
    /\ key_len > KeyWidth /\ value_len > 0

\* The key prefixes a call of abc() on the instance w can produce, over the
\* lowest and the highest residue of the draw (a put and a get wherever
\* put_pct allows both), every tenant and every key index.
Prefixes(w) ==
    {Prefix(abc(w, g, t, k).key) :
        g \in {0, Percent - 1}, t \in ZipfSamples(w.n_tenants),
        k \in ZipfSamples(w.n_keys)}

\* C24: with n_keys = K the key prefixes abc() can produce are exactly 1..K:
\* no call yields another, and each of them is produced by some call.
C24_PrefixesAreOneToK ==
    /\ Prefixes(workload) = 1..workload.n_keys
    /\ (call /= NoCall /\ ~call.panicked) =>
           Prefix(call.key) \in 1..workload.n_keys

\* The last of many keys has been produced.
C24_Witness ==
    /\ call /= NoCall /\ workload.n_keys > Byte
    /\ Prefix(call.key) = workload.n_keys

\* C25: for every frame built by create_get_request or create_invoke_request,
\* whatever length of key or payload they accept, the UDP length field is
\* 8 + udp_payload_len and the IP total-length field 20 + 8 + udp_payload_len,
\* the 16-bit fields holding these exact values.
C25_LengthFieldsExact ==
    (frame /= NoFrame /\ ~frame.refused) =>
        /\ ~frame.panicked
        /\ frame.udp_length = UdpHeaderLen + frame.payload
        /\ frame.ip_length = IpHeaderLen + UdpHeaderLen + frame.payload

\* Every request is handed to the NIC once: the calls of net_port.send() are
\* the requests counted and the one whose send failed.
C26_SubmittedOnce ==
    submitted = requests_sent + (IF exit_code = <<1>> THEN 1 ELSE 0)

\* A call of generate_request(): when the NIC accepts the packet or fewer
\* packets than submitted, requests_sent grows by 1 and the process runs on,
\* with a warning in the second case; when send() returns Err the process
\* exits with code 1 and requests_sent stays.  After the exit nothing runs.
C26_Call ==
    /\ submitted' = submitted + 1 =>
        /\ frame'.built
        /\ nic'.ok =>
            /\ requests_sent' = requests_sent + 1 /\ exit_code' = <<>>
            /\ warnings' = warnings + (IF nic'.sent < 1 THEN 1 ELSE 0)
        /\ ~nic'.ok =>
            /\ requests_sent' = requests_sent /\ exit_code' = <<1>>
    /\ exit_code /= <<>> => UNCHANGED vars

\* C26: when the NIC accepts fewer packets than submitted, generate_request
\* only warns: the request is not submitted again, requests_sent is
\* incremented by 1 and the next call builds a fresh request; when send()
\* returns Err the process exits with code 1 and requests_sent is not
\* incremented.
C26_WarnNoRetryExitOnErr == []C26_SubmittedOnce /\ [][C26_Call]_vars

\* A request the NIC did not take was counted, another was sent after it, and
\* then a send failed.
C26_Witness ==
    /\ warnings > 0 /\ requests_sent > warnings /\ exit_code = <<1>>

\* The median of a sorted vector: its middle element, or the mean of its two
\* middle elements.
Median(l) ==
    LET n == Len(l) IN
    IF n % 2 = 1 THEN l[(n + 1) \div 2]
    ELSE (l[n \div 2] + l[(n \div 2) + 1]) \div 2

\* Drop has run on the master thread.
Reported == summary.done /\ master

\* C28: the median Drop reports is the median of the recorded samples, for
\* every non-empty vector of samples: the middle element of the sorted
\* vector, or the mean of the two middle elements when their number is even.
C28_MedianOfSamples ==
    (Reported /\ samples /= <<>>) =>
        (summary.printed /\ summary.m = Median(sort(samples)))

\* C27: every frame popped from a received batch is freed exactly once before
\* recv() moves on to the next frame, whatever its opcode and status and in
\* both modes: no frame is leaked or freed twice.
C27_EveryFrameFreedOnce ==
    /\ Len(frees) = Len(handled)
    /\ \A i \in 1..Len(frees) : frees[i] = 1

\* C29: every TaskManager in the runnable queue has a live generator,
\* whatever responses are delivered.
C29_RunnableHaveGenerators == \A i \in 1..Len(waiting) : waiting[i].gen

\* The ids of the tasks in the runnable queue and in the pending map.
QueuedIds(q) == {q[i].id : i \in 1..Len(q)}
PendingIds(m) == {t.id : t \in m}

\* Every TaskManager is in at most one of the pending map and the runnable
\* queue, and there once.
C30_AtMostOnePlace ==
    /\ QueuedIds(waiting) \cap PendingIds(manager) = {}
    /\ Cardinality(QueuedIds(waiting)) = Len(waiting)
    /\ Cardinality(PendingIds(manager)) = Cardinality(manager)

\* A task whose step returns COMPLETED is in neither place when
\* execute_task() returns; and a task that is in one of them after a step of
\* the loop was there before, unless it is new (its id is a stamp read from
\* the cycle counter in this step), so that a dropped task does not return.
C30_DroppedForGood ==
    LET before == QueuedIds(waiting) \cup PendingIds(manager)
        after == QueuedIds(waiting') \cup PendingIds(manager')
        done == pc = "task" /\ taskstate' = "COMPLETED"
    IN  /\ done => Head(waiting).id \notin after
        /\ \A id \in after : id \in before \/ id > clock

\* C30: a task whose step returns COMPLETED is dropped, it is in neither the
\* pending map nor the runnable queue afterwards and is never stepped again;
\* every TaskManager is at any time in at most one of the two.
C30_CompletedTaskIsDropped == []C30_AtMostOnePlace /\ [][C30_DroppedForGood]_vars

\* A task has just completed and been dropped while another pushed-back task
\* is queued or pending.
C30_Witness ==
    /\ pc = "send" /\ taskstate = "COMPLETED"
    /\ waiting /= <<>> \/ \E t \in manager : t.gen

\* C33: in native mode a GetOk response whose stamp has no entry in
\* native_state is freed and discarded: the process goes on, and `recvd`,
\* `outstanding`, native_state and the latency vector are as before.
C33_UntrackedGetOkDiscarded ==
    [][(/\ native /\ HandledOne("Get", "Ok")
        /\ ~\E e \in native_state : e.stamp = handled'[1].stamp) =>
          /\ ~panicked'
          /\ frees' = <<1>>
          /\ recvd' = recvd /\ outstanding' = outstanding
          /\ native_state' = native_state
          /\ latencies' = latencies]_vars

\* C34: after the loop has signalled done (finished = true) it sends no
\* further request: no later step of execute() changes `sent` or the pending
\* map.
C34_NoSendAfterDone ==
    [][finished => (sent' = sent /\ manager' = manager)]_vars

\* From a state with recvd >= responses on, no step handles a packet or
\* changes `recvd`, the number of latency samples or `stop`.
C35_TargetReachedFreezes ==
    (responses <= recvd) =>
        /\ recvd' = recvd /\ latencies' = latencies /\ stop' = stop
        /\ pc = "recv" => handled' = handled

\* `stop` is written by the receive phase in which recvd reaches the target,
\* and by no other step.
C35_StopWrittenOnce ==
    /\ stop' /= stop => (recvd < responses /\ responses <= recvd')
    /\ (recvd < responses /\ responses <= recvd' /\ ~panicked') =>
           stop' /= stop

\* C35: once recvd >= responses holds, every later recv() processes no
\* packet: `recvd`, the length of the latency vector and `stop` never change
\* again, `stop` is written in exactly one invocation, the one in which recvd
\* first reaches the target, and `finished`, once true, stays true.
C35_RecvIsNoOpAfterTarget ==
    [][/\ C35_TargetReachedFreezes
       /\ C35_StopWrittenOnce
       /\ finished => finished']_vars

\* recv() is about to be called again, after done was signalled, while
\* requests are still unanswered.
C35_Witness ==
    /\ pc = "recv" /\ finished /\ FINISHED /\ stop > 0
    /\ wire /= {} /\ ~panicked

\* C36: on the master core Drop never indexes the latency vector out of
\* bounds: for every number n of recorded samples each index used for the
\* median and for the 99th percentile is less than n.
C36_DropIndexesInBounds == Reported => ~summary.panicked

\* C31: the synthetic compute of the final native GET step is exactly
\* NUM_MUL = 1000 multiplications: a call mul(init, 1000) that returns has
\* executed its multiply step 1000 times.
C31_ThousandMultiplications ==
    compute.pc = "returned" => compute.steps = NUM_MUL

\* C32: with 8 loops sharing the flag FINISHED, the main thread calls
\* net_context.stop() only after every one of the 8 loops has received its
\* response target: no core is stopped with `recvd` below `responses`.
C32_StopAfterAllCoresDone ==
    main = "stopped" => \A c \in Cores : cores[c].recvd >= responses

====
